---- MODULE Spec2Model ----
(***************************************************************************)
(* Model of scripts/suspend.py of slurm-gcp: one invocation of main(),     *)
(* which deletes the cloud instances behind a list of Slurm nodes.         *)
(*                                                                         *)
(* A hostname "cluster-<pid>-<k>" is the pair <<pid, k>>.  The provider,   *)
(* the regional lookup and the operation poll are a fake whose answers are *)
(* fixed per hostname at the start of the invocation (fate); whether the   *)
(* submission of a batch raises is chosen when the batch is submitted.     *)
(***************************************************************************)
EXTENDS Integers, Sequences, FiniteSets, TLC

\* ---------------------------------------------------------------- bounds
MaxNodes == 2          \* longest node list of the small configurations
MaxThrottle == 1       \* the fake provider throttles a node in at most this many rounds
BigExtra == 1          \* the long lists hold TOT_REQ_CNT and TOT_REQ_CNT + BigExtra nodes
MidNodes == 50         \* length of the job-triggered list of the long configurations
MaxRounds == MaxThrottle + 2   \* cap on the number of delete_instances rounds

\* ------------------------------------------------------ program constants
TOT_REQ_CNT == 1000
PLACEMENT_MAX_CNT == 22

None == "None"        \* None where a string is expected
NoValue == <<>>       \* None where a sequence is expected

\* cfg.instance_defs: the partitions of the cluster (config.yaml)
Pids == {"p0", "p1", "p2", "p3"}

instance_defs ==
  [pid \in Pids |->
     CASE pid = "p0" -> [exclusive |-> FALSE, regional_capacity |-> FALSE, tpu_type |-> None,
                         enable_placement |-> FALSE, machine_type |-> <<"n1", "standard", "2">>,
                         zone |-> "zone-a", region |-> "region-1"]
       [] pid = "p1" -> [exclusive |-> TRUE, regional_capacity |-> FALSE, tpu_type |-> None,
                         enable_placement |-> TRUE, machine_type |-> <<"c2", "standard", "4">>,
                         zone |-> "zone-a", region |-> "region-1"]
       [] pid = "p2" -> [exclusive |-> FALSE, regional_capacity |-> FALSE, tpu_type |-> "v2-8",
                         enable_placement |-> FALSE, machine_type |-> <<"n1", "standard", "2">>,
                         zone |-> "zone-t", region |-> "region-1"]
       [] pid = "p3" -> [exclusive |-> FALSE, regional_capacity |-> TRUE, tpu_type |-> None,
                         enable_placement |-> FALSE, machine_type |-> <<"n1", "standard", "2">>,
                         zone |-> None, region |-> "region-1"]]

\* util.get_pid: the partition id of a hostname
get_pid(node_name) == node_name[1]

\* bool(x) of Python for an optional string
Truthy(x) == x # None /\ x # ""

\* ------------------------------------------------------------- sequences
Range(s) == {s[i] : i \in 1..Len(s)}

Last(s) == s[Len(s)]


\* ------------------------------------------------------------- the state
VARIABLES
  pc,             \* position of main()
  input_list,     \* the expanded hostnames of arg_nodes (scontrol show hostnames)
  arg_job_id,     \* 0 when idle-triggered, the job id when job-triggered
  fate,           \* the fake's answers per hostname
  node_list,      \* main's node_list variable
  tpu_node_list,  \* main's tpu_node_list variable
  tpu_i,          \* index of the TPU loop
  regional_instances, \* delete_instances: result of the regional lookup of the round
  batch_list,     \* delete_instances: the batches, each a sequence of requests
  curr_batch,     \* delete_instances: index of the current batch (from 0)
  req_cnt,        \* delete_instances: requests in the current batch
  batch_i,        \* delete_instances: index of the submission loop
  retry_list,     \* module global retry_list
  operations,     \* module global operations, in insertion order
  op_i,           \* index of the loop over operations.values()
  pg_index,       \* delete_placement_groups: pg_index
  pg_i,           \* delete_placement_groups: loop variable i
  pg_ops,         \* delete_placement_groups: pg_ops
  pg_wait_i,      \* delete_placement_groups: index of the wait loop
  node_state,     \* scheduler state of each hostname
  events,         \* every external call issued, in order
  hist            \* per round of delete_instances: what was batched and answered

vars == <<pc, input_list, arg_job_id, fate, node_list, tpu_node_list, tpu_i, regional_instances,
          batch_list, curr_batch, req_cnt, batch_i, retry_list, operations, op_i,
          pg_index, pg_i, pg_ops, pg_wait_i, node_state, events, hist>>

\* ------------------------------------------------------ the fake provider
\* the text of an exception is a sequence of phrases
ThrottleMsgs == {"Rate Limit Exceeded", "Quota exceeded"}
ThrottleErrors == {<<"HttpError 403", m>> : m \in ThrottleMsgs}
PermanentError == <<"HttpError 400", "Invalid resource">>

FoundUrl == <<"projects", "proj", "zones", "zone-b">>

\* a node the fake never throttles, accepts and deletes
GoodFate == [errs |-> <<>>, final |-> NoValue, wait |-> "DONE", lookup |-> NoValue]

\* answers for a node that reaches a batch: the same throttling error in each
\* of the first k rounds, then acceptance or a permanent error, and the end of
\* the operation
BatchFates(lookup) ==
  {[errs |-> [i \in 1..k |-> e], final |-> f[1], wait |-> f[2], lookup |-> lookup] :
     k \in 0..MaxThrottle, e \in ThrottleErrors,
     f \in {<<NoValue, "DONE">>, <<NoValue, "ERROR">>, <<PermanentError, "DONE">>}}

\* a node throttled in the first round and then accepted and deleted
ThrottledOnce ==
  [errs |-> IF MaxThrottle > 0 THEN << <<"HttpError 403", "Quota exceeded">> >> ELSE <<>>,
   final |-> NoValue, wait |-> "DONE", lookup |-> NoValue]

\* a regional node is absent, or found and then deleted, at once or after one
\* throttled round
RegionalFates ==
  {GoodFate} \cup {f \in BatchFates(FoundUrl) :
                     f.final = NoValue /\ f.wait = "DONE" /\ Len(f.errs) <= 1}

FatesOf(pid) ==
  IF Truthy(instance_defs[pid].tpu_type) THEN {GoodFate}
  ELSE IF instance_defs[pid].regional_capacity
       THEN RegionalFates
       ELSE BatchFates(NoValue)

NodeKinds == UNION {{[pid |-> p, fate |-> f] : f \in FatesOf(p)} : p \in Pids}

\* the provider's answer to the delete request of node_name in round r:
\* (response, exception) as handed to the callback
ProviderAnswer(f, node_name, r) ==
  IF r <= Len(f[node_name].errs)
  THEN [response |-> NoValue, exception |-> f[node_name].errs[r]]
  ELSE IF f[node_name].final # NoValue
       THEN [response |-> NoValue, exception |-> f[node_name].final]
       ELSE [response |-> [name |-> node_name], exception |-> NoValue]

\* util.get_regional_instances: the instances found for the regional definitions
RegionalInstances(f, nodes, def_list) ==
  [n \in {m \in nodes : /\ get_pid(m) \in def_list
                        /\ instance_defs[get_pid(m)].regional_capacity
                        /\ f[m].lookup # NoValue}
     |-> [zone |-> f[n].lookup]]

\* ------------------------------------------------------------------ Init
JobIds == {0, 7}

Hostnames(kinds) == [i \in DOMAIN kinds |-> <<kinds[i].pid, i - 1>>]

InitFrom(hosts, f, job) ==
  /\ pc = "start"
  /\ input_list = hosts
  /\ arg_job_id = job
  /\ fate = f
  /\ node_list = hosts
  /\ tpu_node_list = <<>>
  /\ tpu_i = 1
  /\ regional_instances = << >>
  /\ batch_list = <<>>
  /\ curr_batch = 0
  /\ req_cnt = 0
  /\ batch_i = 1
  /\ retry_list = <<>>
  /\ operations = <<>>
  /\ op_i = 1
  /\ pg_index = 0
  /\ pg_i = 0
  /\ pg_ops = <<>>
  /\ pg_wait_i = 1
  /\ node_state = [n \in Range(hosts) |-> IF job # 0 THEN "Schedulable" ELSE "PowerDown"]
  /\ events = <<>>
  /\ hist = <<>>

KindFate(kinds) ==
  [h \in Range(Hostnames(kinds)) |->
     kinds[CHOOSE i \in DOMAIN kinds : Hostnames(kinds)[i] = h].fate]

Init ==
  \E n \in 1..MaxNodes : \E kinds \in [1..n -> NodeKinds] : \E job \in JobIds :
    InitFrom(Hostnames(kinds), KindFate(kinds), job)

\* ------------------------------------------------------------ scheduler
\* run(f"{SCONTROL} update node={arg_nodes} state=..."): the state of every
\* node of arg_nodes after the command
Scontrol(states, nodes, state) ==
  [n \in DOMAIN states |->
     IF n \in nodes
     THEN CASE state = "down" -> "AdminDown"
            [] state = "power_down" -> "PowerDown"
            [] state = "resume" -> "Schedulable"
     ELSE states[n]]

ScontrolEvent(state, nodes) == [type |-> "scontrol", state |-> state, nodes |-> nodes]

\* ----------------------------------------------------------------- main
\* line 147 with the last node of the list for the first: node_list[-1]
EarlyReturn_LastNode ==
  /\ pc = "start"
  /\ arg_job_id # 0
  /\ ~instance_defs[get_pid(Last(input_list))].exclusive
  /\ pc' = "returned"
  /\ UNCHANGED <<input_list, arg_job_id, fate, regional_instances, node_list, tpu_node_list, tpu_i,
                 batch_list, curr_batch, req_cnt, batch_i, retry_list,
                 operations, op_i, pg_index, pg_i, pg_ops, pg_wait_i, node_state,
                 events, hist>>

\* main, lines 147-150: a job-triggered call on a non-exclusive partition returns
EarlyReturn ==
  /\ pc = "start"
  /\ arg_job_id # 0
  /\ ~instance_defs[get_pid(input_list[1])].exclusive
  /\ pc' = "returned"
  /\ UNCHANGED <<input_list, arg_job_id, fate, regional_instances, node_list, tpu_node_list, tpu_i,
                 batch_list, curr_batch, req_cnt, batch_i, retry_list,
                 operations, op_i, pg_index, pg_i, pg_ops, pg_wait_i, node_state,
                 events, hist>>

\* line 157 left out: the nodes are not set to down before they are powered down
MarkDown_Skipped ==
  /\ pc = "start"
  /\ arg_job_id # 0
  /\ instance_defs[get_pid(input_list[1])].exclusive
  /\ pc' = "power_down"
  /\ UNCHANGED <<input_list, arg_job_id, fate, regional_instances, node_list, tpu_node_list, tpu_i,
                 batch_list, curr_batch, req_cnt, batch_i, retry_list,
                 operations, op_i, pg_index, pg_i, pg_ops, pg_wait_i, node_state,
                 events, hist>>

\* lines 152-157 without the test of arg_job_id at line 152
MarkDown_AnyTrigger ==
  /\ pc = "start"
  /\ arg_job_id # 0 => instance_defs[get_pid(input_list[1])].exclusive
  /\ node_state' = Scontrol(node_state, Range(input_list), "down")
  /\ events' = Append(events, ScontrolEvent("down", Range(input_list)))
  /\ pc' = "power_down"
  /\ UNCHANGED <<input_list, arg_job_id, fate, regional_instances, node_list, tpu_node_list, tpu_i,
                 batch_list, curr_batch, req_cnt, batch_i, retry_list,
                 operations, op_i, pg_index, pg_i, pg_ops, pg_wait_i, hist>>

\* main, line 157: state=down for arg_nodes
MarkDown ==
  /\ pc = "start"
  /\ arg_job_id # 0
  /\ instance_defs[get_pid(input_list[1])].exclusive
  /\ node_state' = Scontrol(node_state, Range(input_list), "down")
  /\ events' = Append(events, ScontrolEvent("down", Range(input_list)))
  /\ pc' = "power_down"
  /\ UNCHANGED <<input_list, arg_job_id, fate, regional_instances, node_list, tpu_node_list, tpu_i,
                 batch_list, curr_batch, req_cnt, batch_i, retry_list,
                 operations, op_i, pg_index, pg_i, pg_ops, pg_wait_i, hist>>

\* main, line 159: state=power_down for arg_nodes
MarkPowerDown ==
  /\ pc = "power_down"
  /\ node_state' = Scontrol(node_state, Range(input_list), "power_down")
  /\ events' = Append(events, ScontrolEvent("power_down", Range(input_list)))
  /\ pc' = "partition"
  /\ UNCHANGED <<input_list, arg_job_id, fate, regional_instances, node_list, tpu_node_list, tpu_i,
                 batch_list, curr_batch, req_cnt, batch_i, retry_list,
                 operations, op_i, pg_index, pg_i, pg_ops, pg_wait_i, hist>>

\* the predicate of line 163 negated
IsTpuNode_Negated(el) == ~Truthy(instance_defs[get_pid(el)].tpu_type)

\* the predicate of line 163
IsTpuNode(el) == Truthy(instance_defs[get_pid(el)].tpu_type)

\* util.partition(coll, pred): the elements failing pred, the elements passing
\* it; pred is given as the function of its values on the elements
partition(coll, pred) ==
  <<SelectSeq(coll, LAMBDA el : ~pred[el]), SelectSeq(coll, LAMBDA el : pred[el])>>

\* main, lines 162-164: separate out the TPU nodes
SeparateTpu ==
  /\ \/ pc = "start" /\ arg_job_id = 0
     \/ pc = "partition"
  /\ LET parts == partition(node_list, [el \in Range(node_list) |-> IsTpuNode(el)])
     IN  /\ node_list' = parts[1]
         /\ tpu_node_list' = parts[2]
         /\ pc' = IF Len(parts[2]) > 0 THEN "tpu" ELSE "round"
  /\ tpu_i' = 1
  /\ UNCHANGED <<input_list, arg_job_id, fate, regional_instances, batch_list, curr_batch, req_cnt,
                 batch_i, retry_list, operations, op_i, pg_index, pg_i, pg_ops,
                 pg_wait_i, node_state, events, hist>>

\* main, lines 167-176: one synchronous gcloud delete per TPU node
DeleteTpu ==
  /\ pc = "tpu"
  /\ tpu_i <= Len(tpu_node_list)
  /\ LET node_name == tpu_node_list[tpu_i]
         tpu_inst == instance_defs[get_pid(node_name)]
     IN  events' = Append(events, [type |-> "tpu_delete", node |-> node_name,
                                   zone |-> tpu_inst.zone])
  /\ tpu_i' = tpu_i + 1
  /\ pc' = IF tpu_i' > Len(tpu_node_list) THEN "round" ELSE "tpu"
  /\ UNCHANGED <<input_list, arg_job_id, fate, regional_instances, node_list, tpu_node_list, batch_list,
                 curr_batch, req_cnt, batch_i, retry_list, operations, op_i,
                 pg_index, pg_i, pg_ops, pg_wait_i, node_state, hist>>

\* lines 78-80 left out: no node is skipped
SkipExclusive_Never(job, pid) == FALSE

\* line 78 without the test of arg_job_id
SkipExclusive_AnyTrigger(job, pid) == instance_defs[pid].exclusive

\* ----------------------------------------------------- delete_instances
\* line 78: the node was deleted by EpilogSlurmctld, skip for SuspendProgram
SkipExclusive(job, pid) == job = 0 /\ instance_defs[pid].exclusive

\* line 92 with > for >=
BatchFull_OffByOne(cnt) == cnt > TOT_REQ_CNT

\* line 92: the current batch holds the maximum number of requests
BatchFull(cnt) == cnt >= TOT_REQ_CNT

\* line 88 with the first component of the URL: split('/')[0]
ZoneOfUrl_First(url) == url[1]

\* line 88: instance['zone'].split('/')[-1]
ZoneOfUrl(url) == Last(url)

\* delete_instances, lines 75-104: one iteration of the loop over node_list;
\* st holds batch_list, curr_batch, req_cnt and the hostnames batched so far
AddNode(st, node_name, job, found) ==
  LET pid == get_pid(node_name)
      regional == instance_defs[pid].regional_capacity
      missing == regional /\ node_name \notin DOMAIN found
      zone == IF regional THEN ZoneOfUrl(found[node_name].zone) ELSE instance_defs[pid].zone
      open == BatchFull(st.req_cnt)
      cb == IF open THEN st.curr_batch + 1 ELSE st.curr_batch
      bl == IF open THEN Append(st.batch_list, <<>>) ELSE st.batch_list
      request == [request_id |-> node_name, zone |-> zone]
  IN  IF SkipExclusive(job, pid) \/ missing
      THEN st
      ELSE [batch_list |-> [bl EXCEPT ![cb + 1] = Append(@, request)],
            curr_batch |-> cb,
            req_cnt |-> (IF open THEN 0 ELSE st.req_cnt) + 1,
            batched |-> st.batched \cup {node_name}]

\* the iterations lo..hi of that loop, in order
RECURSIVE AddNodes(_, _, _, _, _, _)
AddNodes(st, nodes, lo, hi, job, found) ==
  IF lo > hi THEN st
  ELSE IF lo = hi THEN AddNode(st, nodes[lo], job, found)
  ELSE LET mid == (lo + hi) \div 2
           left == AddNodes(st, nodes, lo, mid, job, found)
       IN  IF left.req_cnt >= 0 THEN AddNodes(left, nodes, mid + 1, hi, job, found) ELSE left

NewRound(nodes, queue, batched) ==
  [nodes |-> nodes, queue |-> queue, batched |-> batched, executed |-> 0, raised |-> 0,
   throttled |-> {}, permanent |-> {}, accepted |-> {}]

\* delete_instances, lines 63-104: the regional lookup and the batches
BuildBatches ==
  /\ pc = "round"
  /\ Len(hist) < MaxRounds
  /\ LET def_list == {get_pid(n) : n \in Range(node_list)}
         found == RegionalInstances(fate, Range(node_list), def_list)
         st == AddNodes([batch_list |-> << <<>> >>, curr_batch |-> 0, req_cnt |-> 0,
                         batched |-> {}],
                        node_list, 1, Len(node_list), arg_job_id, found)
     IN  /\ regional_instances' = found
         /\ events' = Append(events, [type |-> "lookup", defs |-> def_list])
         /\ batch_list' = st.batch_list
         /\ curr_batch' = st.curr_batch
         /\ req_cnt' = st.req_cnt
         /\ hist' = Append(hist, NewRound(node_list, retry_list, st.batched))
  /\ batch_i' = 1
  /\ pc' = "submit"
  /\ UNCHANGED <<input_list, arg_job_id, fate, node_list, tpu_node_list, tpu_i, retry_list,
                 operations, op_i, pg_index, pg_i, pg_ops, pg_wait_i, node_state>>

\* "x" in str(exception): the text of an exception is a sequence of phrases
Contains(text, phrase) == \E i \in 1..Len(text) : text[i] = phrase

\* line 54 taking every error for a throttling error
IsThrottled_AnyError(exception) == TRUE

\* line 54: the error is a throttling error
IsThrottled(exception) ==
  Contains(exception, "Rate Limit Exceeded") \/ Contains(exception, "Quota exceeded")

\* operations[request_id] = response on a dict kept in insertion order
DictSet(d, key, value) ==
  IF \E i \in 1..Len(d) : d[i].key = key
  THEN [i \in 1..Len(d) |-> IF d[i].key = key THEN [key |-> key, value |-> value] ELSE d[i]]
  ELSE Append(d, [key |-> key, value |-> value])

\* the callback queueing an accepted request for the next round as well
delete_instances_cb_Requeue(rl, ops, request_id, response, exception) ==
  IF exception # NoValue
  THEN IF IsThrottled(exception)
       THEN [retry_list |-> Append(rl, request_id), operations |-> ops]
       ELSE [retry_list |-> rl, operations |-> ops]
  ELSE [retry_list |-> Append(rl, request_id),
        operations |-> DictSet(ops, request_id, response)]

\* delete_instances_cb, lines 51-57: the new retry_list and operations
delete_instances_cb(rl, ops, request_id, response, exception) ==
  IF exception # NoValue
  THEN IF IsThrottled(exception)
       THEN [retry_list |-> Append(rl, request_id), operations |-> ops]
       ELSE [retry_list |-> rl, operations |-> ops]
  ELSE [retry_list |-> rl, operations |-> DictSet(ops, request_id, response)]

\* the kind of an answer of the provider
AnswerKind(answer) ==
  IF answer.exception = NoValue THEN "accepted"
  ELSE IF \E m \in ThrottleMsgs : Contains(answer.exception, m) THEN "throttled"
       ELSE "permanent"

\* the callback of one request of an executed batch; st holds retry_list,
\* operations and the answers of the round
FireCallback(st, request, f, r) ==
  LET answer == ProviderAnswer(f, request.request_id, r)
      after == delete_instances_cb(st.retry_list, st.operations, request.request_id,
                                   answer.response, answer.exception)
      kind == AnswerKind(answer)
  IN  [retry_list |-> after.retry_list,
       operations |-> after.operations,
       answers |-> [st.answers EXCEPT ![kind] = @ \cup {request.request_id}]]

\* the callbacks of the requests lo..hi of a batch, in the order of the batch
RECURSIVE FireCallbacks(_, _, _, _, _, _)
FireCallbacks(st, batch, lo, hi, f, r) ==
  IF lo > hi THEN st
  ELSE IF lo = hi THEN FireCallback(st, batch[lo], f, r)
  ELSE LET mid == (lo + hi) \div 2
           left == FireCallbacks(st, batch, lo, mid, f, r)
       IN  IF Len(left.retry_list) >= 0 THEN FireCallbacks(left, batch, mid + 1, hi, f, r)
           ELSE left

\* lines 111-112 left out: the exception of a batch leaves main
AfterBatchException_Propagated == "crashed"

\* lines 111-112: the exception of a batch is logged and delete_instances
\* returns to the retry loop of main
AfterBatchException == "retry"

\* delete_instances, lines 106-112: ensure_execute of the next batch, which
\* fires the callback of each of its requests; when it raises, the except
\* clause around the whole loop ends the submissions of the round
ExecuteBatch ==
  /\ pc = "submit"
  /\ batch_i <= Len(batch_list)
  /\ \E raised \in BOOLEAN :
       /\ events' = Append(events, [type |-> "batch", round |-> Len(hist), index |-> batch_i,
                                    size |-> Len(batch_list[batch_i]), raised |-> raised])
       /\ IF raised
          THEN /\ pc' = AfterBatchException
               /\ hist' = [hist EXCEPT ![Len(hist)].raised = @ + 1]
               /\ UNCHANGED <<batch_i, retry_list, operations>>
          ELSE LET batch == batch_list[batch_i]
                   round == hist[Len(hist)]
                   st == FireCallbacks([retry_list |-> retry_list, operations |-> operations,
                                        answers |-> [throttled |-> round.throttled,
                                                     permanent |-> round.permanent,
                                                     accepted |-> round.accepted]],
                                       batch, 1, Len(batch), fate, Len(hist))
               IN  /\ retry_list' = st.retry_list
                   /\ operations' = st.operations
                   /\ hist' = [hist EXCEPT ![Len(hist)] =
                                 [@ EXCEPT !.executed = @ + 1,
                                           !.throttled = st.answers.throttled,
                                           !.permanent = st.answers.permanent,
                                           !.accepted = st.answers.accepted]]
                   /\ batch_i' = batch_i + 1
                   /\ pc' = IF batch_i' > Len(batch_list) THEN "retry" ELSE "submit"
  /\ UNCHANGED <<input_list, arg_job_id, fate, regional_instances, node_list, tpu_node_list,
                 tpu_i, batch_list, curr_batch, req_cnt, op_i, pg_index, pg_i,
                 pg_ops, pg_wait_i, node_state>>

\* line 185 left out: the next round takes the whole list again
RetriedNodes_Keep(nl, rl) == nl

\* ------------------------------------------------------- the retry loop
\* main, line 185: node_list = list(retry_list)
RetriedNodes(nl, rl) == rl

\* line 186 left out
ClearedList_Kept(rl) == rl

\* main, line 186: del retry_list[:]
ClearedList(rl) == <<>>

\* line 188 without the test of arg_job_id
AwaitsOperations_Always(job) == TRUE

\* main, line 188: only a job-triggered call waits for the operations
AwaitsOperations(job) == job # 0

\* main, lines 180-186: leave the loop when nothing is to be retried, else
\* the next round takes the retry list
RetryCheck ==
  /\ pc = "retry"
  /\ IF Len(retry_list) = 0
     THEN /\ pc' = IF AwaitsOperations(arg_job_id) /\ Len(operations) > 0
                   THEN "wait" ELSE "summary"
          /\ UNCHANGED <<node_list, retry_list>>
     ELSE /\ node_list' = RetriedNodes(node_list, retry_list)
          /\ retry_list' = ClearedList(retry_list)
          /\ pc' = "round"
  /\ op_i' = 1
  /\ UNCHANGED <<input_list, arg_job_id, fate, regional_instances, tpu_node_list, tpu_i,
                 batch_list, curr_batch, req_cnt, batch_i, operations,
                 pg_index, pg_i, pg_ops, pg_wait_i, node_state, events, hist>>

\* main, line 193: the nodes the resume command names (node={arg_nodes})
ResumeNodes(operation) == Range(input_list)

\* main, lines 189-195: wait for the next operation, then resume
WaitOperation ==
  /\ pc = "wait"
  /\ op_i <= Len(operations)
  /\ LET operation == operations[op_i].value
         ok == fate[operation.name].wait = "DONE"
         waited == Append(events, [type |-> "wait", node |-> operation.name, ok |-> ok])
     IN  IF ok
         THEN /\ node_state' = Scontrol(node_state, ResumeNodes(operation), "resume")
              /\ events' = Append(waited, ScontrolEvent("resume", ResumeNodes(operation)))
         ELSE /\ events' = waited
              /\ UNCHANGED node_state
  /\ op_i' = op_i + 1
  /\ pc' = IF op_i' > Len(operations) THEN "summary" ELSE "wait"
  /\ UNCHANGED <<input_list, arg_job_id, fate, regional_instances, node_list, tpu_node_list,
                 tpu_i, batch_list, curr_batch, req_cnt, batch_i, retry_list,
                 operations, pg_index, pg_i, pg_ops, pg_wait_i, hist>>

\* ------------------------------------------------------ placement groups
\* main, lines 199-202, with pid of line 147
PlacementWanted ==
  LET pid == get_pid(input_list[1])
  IN  /\ arg_job_id # 0
      /\ instance_defs[pid].enable_placement
      /\ instance_defs[pid].machine_type[1] = "c2"
      /\ Len(node_list) > 1

\* main, line 203 and delete_placement_groups, lines 118-121
StartPlacement ==
  /\ pc = "summary"
  /\ PlacementWanted
  /\ pg_ops' = <<>>
  /\ pg_index' = 0
  /\ pg_i' = 0
  /\ pg_wait_i' = 1
  /\ pc' = "pg_delete"
  /\ UNCHANGED <<input_list, arg_job_id, fate, regional_instances, node_list, tpu_node_list,
                 tpu_i, batch_list, curr_batch, req_cnt, batch_i, retry_list,
                 operations, op_i, node_state, events, hist>>

\* delete_placement_groups, lines 123-130: one iteration of the loop over
\* range(len(node_list)); execute() may raise, and nothing catches it
DeletePlacementGroup ==
  /\ pc = "pg_delete"
  /\ pg_i < Len(node_list)
  /\ IF pg_i % PLACEMENT_MAX_CNT # 0
     THEN /\ pc' = IF pg_i + 1 < Len(node_list) THEN "pg_delete" ELSE "pg_wait"
          /\ UNCHANGED <<pg_index, pg_ops, events>>
     ELSE \E raised \in BOOLEAN :
            /\ pg_index' = pg_index + 1
            /\ events' = Append(events, [type |-> "pg_delete", index |-> pg_index',
                                         job |-> arg_job_id, raised |-> raised,
                                         region |-> instance_defs[get_pid(node_list[1])].region])
            /\ IF raised
               THEN pc' = "crashed" /\ UNCHANGED pg_ops
               ELSE /\ pg_ops' = Append(pg_ops, pg_index')
                    /\ pc' = IF pg_i + 1 < Len(node_list) THEN "pg_delete" ELSE "pg_wait"
  /\ pg_i' = pg_i + 1
  /\ UNCHANGED <<input_list, arg_job_id, fate, regional_instances, node_list, tpu_node_list,
                 tpu_i, batch_list, curr_batch, req_cnt, batch_i, retry_list,
                 operations, op_i, pg_wait_i, node_state, hist>>

\* delete_placement_groups, lines 131-133, then main, line 205
WaitPlacement ==
  /\ pc = "pg_wait"
  /\ pg_wait_i <= Len(pg_ops)
  /\ \E ok \in BOOLEAN :
       /\ events' = Append(events, [type |-> "pg_wait", index |-> pg_ops[pg_wait_i], ok |-> ok])
       /\ pc' = IF ~ok THEN "crashed"
                ELSE IF pg_wait_i = Len(pg_ops) THEN "done" ELSE "pg_wait"
  /\ pg_wait_i' = pg_wait_i + 1
  /\ UNCHANGED <<input_list, arg_job_id, fate, regional_instances, node_list, tpu_node_list,
                 tpu_i, batch_list, curr_batch, req_cnt, batch_i, retry_list,
                 operations, op_i, pg_index, pg_i, pg_ops, node_state, hist>>

\* main, lines 197-205 when no placement group is to be deleted
Finish ==
  /\ pc = "summary"
  /\ ~PlacementWanted
  /\ pc' = "done"
  /\ UNCHANGED <<input_list, arg_job_id, fate, regional_instances, node_list, tpu_node_list,
                 tpu_i, batch_list, curr_batch, req_cnt, batch_i, retry_list,
                 operations, op_i, pg_index, pg_i, pg_ops, pg_wait_i, node_state, events,
                 hist>>

\* ------------------------------------------------------- specifications
Next ==
  \/ EarlyReturn
  \/ MarkDown
  \/ MarkPowerDown
  \/ SeparateTpu
  \/ DeleteTpu
  \/ BuildBatches
  \/ ExecuteBatch
  \/ RetryCheck
  \/ WaitOperation
  \/ StartPlacement
  \/ DeletePlacementGroup
  \/ WaitPlacement
  \/ Finish

Spec == Init /\ [][Next]_vars

\* Long node lists: idle-triggered lists of plain nodes around the batch cap,
\* never throttled or all throttled in the first round; a job-triggered list
\* of MidNodes exclusive nodes; and short lists that reach the remaining code.
UniformHosts(pid, n) == [i \in 1..n |-> <<pid, i - 1>>]

UniformFate(hosts, f) == [h \in Range(hosts) |-> f]

LongScenarios ==
  {[hosts |-> UniformHosts("p0", n), fate |-> UniformFate(UniformHosts("p0", n), f), job |-> 0] :
     n \in {TOT_REQ_CNT, TOT_REQ_CNT + BigExtra}, f \in {GoodFate, ThrottledOnce}}
  \cup
  {[hosts |-> UniformHosts("p1", MidNodes),
    fate |-> UniformFate(UniformHosts("p1", MidNodes), f), job |-> 7] :
     f \in {GoodFate, ThrottledOnce}}
  \cup
  {[hosts |-> UniformHosts("p0", 1), fate |-> UniformFate(UniformHosts("p0", 1), GoodFate),
    job |-> 7],
   [hosts |-> <<<<"p2", 0>>, <<"p0", 1>>>>,
    fate |-> UniformFate(<<<<"p2", 0>>, <<"p0", 1>>>>, GoodFate), job |-> 0]}

InitLong == \E sc \in LongScenarios : InitFrom(sc.hosts, sc.fate, sc.job)

SpecLong == InitLong /\ [][Next]_vars

\* The invocation is one thread that runs until it ends: weak fairness of its
\* steps.  The lists are those of Init with one throttling text, plain nodes
\* with every answer, and the other partitions with a node that is deleted at
\* once or after one throttled round.
FairKinds ==
  {k \in NodeKinds :
     /\ \A i \in DOMAIN k.fate.errs : k.fate.errs[i][2] = "Quota exceeded"
     /\ k.pid # "p0" => k.fate \in {GoodFate, ThrottledOnce}}

InitFair ==
  \E n \in 1..MaxNodes : \E kinds \in [1..n -> FairKinds] : \E job \in JobIds :
    InitFrom(Hostnames(kinds), KindFate(kinds), job)

SpecFair == InitFair /\ [][Next]_vars /\ WF_vars(Next)

\* ------------------------------------------------- reading the history
Hosts == Range(input_list)

\* the instance definition of n names a TPU type
HasTpuType(n) == instance_defs[get_pid(n)].tpu_type # None

IsResume(e) == e.type = "scontrol" /\ e.state = "resume"

\* number of resume commands that named n
ResumeCount(n) == Cardinality({i \in DOMAIN events : IsResume(events[i]) /\ n \in events[i].nodes})

\* the wait for the operation of n returned without error before event i
WaitSucceededBefore(n, i) ==
  \E j \in 1..(i - 1) : events[j].type = "wait" /\ events[j].node = n /\ events[j].ok

OperationKeys == {operations[i].key : i \in DOMAIN operations}

TpuDeleteCount(n) == Cardinality({i \in DOMAIN events : events[i].type = "tpu_delete" /\ events[i].node = n})

TpuDeleted == {n \in Hosts : TpuDeleteCount(n) > 0}

PgDeleteIndexes == [i \in {j \in DOMAIN events : events[j].type = "pg_delete"} |-> events[i].index]

BatchedIn(r) == IF r <= Len(hist) THEN hist[r].batched ELSE {}

\* the batching loop of round 1 is over
FirstRoundBatched == Len(hist) >= 1

LoopExited == pc \in {"wait", "summary", "pg_delete", "pg_wait", "done", "crashed"}

Ended == pc \in {"done", "returned", "crashed"}

NoDuplicates(q) == \A i, j \in DOMAIN q : q[i] = q[j] => i = j

CeilDiv(a, b) == (a + b - 1) \div b

\* ------------------------------------------------------------------ C1
\* C1: in a job-triggered invocation a resume is applied to a node of the
\* batch path only after the wait for that node's own delete operation ended
\* in success.
C1_ResumeOnlyAfterOwnSuccess ==
  arg_job_id # 0 =>
    \A i \in DOMAIN events :
      IsResume(events[i]) =>
        \A n \in events[i].nodes : ~HasTpuType(n) => WaitSucceededBefore(n, i)

\* ------------------------------------------------------------------ C2
IdlePlain ==
  /\ arg_job_id = 0
  /\ \A n \in Hosts : ~instance_defs[get_pid(n)].exclusive /\ ~HasTpuType(n)

C3_BatchCap ==
  /\ \A b \in DOMAIN batch_list : Len(batch_list[b]) <= TOT_REQ_CNT
  /\ \A b \in DOMAIN batch_list :
       /\ b < Len(batch_list) => Len(batch_list[b]) = TOT_REQ_CNT
       /\ b > 1 => Len(batch_list[b]) >= 1
  /\ batch_list # <<>> =>
       /\ curr_batch + 1 = Len(batch_list)
       /\ req_cnt = Len(batch_list[curr_batch + 1])

\* a retry round whose requests needed a second batch
C3_Witness ==
  /\ Len(hist) = 2
  /\ pc = "submit"
  /\ Len(batch_list) = 2
  /\ Len(batch_list[1]) = TOT_REQ_CNT
  /\ Len(batch_list[2]) >= 1

\* ------------------------------------------------------------------ C4
\* C4: at any point of round k, and so at its end, every hostname in the
\* retry queue was answered with a throttling error in round k, is in the
\* queue once, and was neither accepted nor failed permanently in round k.
C4_RetryQueueOfRound ==
  /\ NoDuplicates(retry_list)
  /\ \A h \in Range(retry_list) :
       /\ Len(hist) >= 1
       /\ h \in hist[Len(hist)].throttled
       /\ h \notin hist[Len(hist)].permanent
       /\ h \notin hist[Len(hist)].accepted

\* the end of a round that throttled one node and failed another for good
C4_Witness ==
  /\ pc = "retry"
  /\ Len(hist) = MaxThrottle
  /\ retry_list # <<>>
  /\ hist[Len(hist)].permanent # {}

\* ------------------------------------------------------------------ C5
\* C5: a round after the first starts with an empty queue and batches only
\* hostnames throttled in the round before; a hostname accepted or failed
\* permanently in a round is batched in no later round.
C5_RetryOnlyThrottled ==
  /\ \A k \in DOMAIN hist : hist[k].queue = <<>>
  /\ \A k \in DOMAIN hist :
       k > 1 => /\ hist[k].batched \subseteq hist[k - 1].throttled
                /\ Range(hist[k].nodes) \subseteq hist[k - 1].throttled
  /\ \A j, k \in DOMAIN hist :
       j < k => hist[k].batched \cap (hist[j].accepted \cup hist[j].permanent) = {}

\* a second round that resubmits one node of a two-node first round
C5_Witness ==
  /\ Len(hist) = 2
  /\ pc = "retry"
  /\ Cardinality(hist[1].batched) = 2
  /\ Cardinality(hist[2].batched) = 1
  /\ hist[1].accepted \cup hist[1].permanent # {}

\* ------------------------------------------------------------------ C6
\* C6: with a provider that stops throttling, the retry loop is left; it is
\* left with the retry queue empty, and the last round had no throttled answer.
C6_RetryLoopTerminates ==
  /\ <>(pc = "returned" \/ LoopExited)
  /\ [](LoopExited => /\ retry_list = <<>>
                      /\ hist[Len(hist)].throttled = {})

\* the loop was left after a retry round
C6_Witness ==
  /\ LoopExited
  /\ Len(hist) = MaxThrottle + 1
  /\ hist[1].throttled # {}
  /\ retry_list = <<>>

\* ------------------------------------------------------------------ C7
\* regional nodes of the batch path that the lookup did not return
AbsentRegional ==
  {n \in Hosts : /\ ~HasTpuType(n)
                 /\ instance_defs[get_pid(n)].regional_capacity
                 /\ fate[n].lookup = NoValue}

\* nodes of exclusive partitions, which the batch path skips when idle-triggered
IdleSkipped ==
  {n \in Hosts : /\ arg_job_id = 0
                 /\ ~HasTpuType(n)
                 /\ instance_defs[get_pid(n)].exclusive}

\* C7 as stated: once the first round is batched (or the invocation has
\* returned), the nodes of the accelerator path and the nodes batched in round 1
\* are disjoint and together are the input list minus the absent regional nodes.
C7_AllButAbsentDeleted ==
  (FirstRoundBatched \/ pc = "returned") =>
    /\ TpuDeleted \cap BatchedIn(1) = {}
    /\ TpuDeleted \cup BatchedIn(1) = Hosts \ AbsentRegional

\* C7 amended: the two sets are disjoint; once the first round is batched they
\* are together the input list minus the absent regional nodes and minus, when
\* idle-triggered, the nodes of exclusive partitions; an invocation that
\* returned early has deleted and batched nothing.
C7_AllButAbsentAndSkipped ==
  /\ TpuDeleted \cap BatchedIn(1) = {}
  /\ FirstRoundBatched =>
       TpuDeleted \cup BatchedIn(1) = (Hosts \ AbsentRegional) \ IdleSkipped
  /\ pc = "returned" => TpuDeleted \cup BatchedIn(1) = {}

\* an idle-triggered list with an exclusive node that is skipped and another
\* node that is batched
C7_Witness ==
  /\ pc = "done"
  /\ arg_job_id = 0
  /\ IdleSkipped # {}
  /\ BatchedIn(1) # {}

\* ------------------------------------------------------------------ C8
AllBatched == UNION {hist[r].batched : r \in DOMAIN hist}

\* C8 as stated: at the end of an invocation every TPU node was deleted by
\* exactly one accelerator command and no other node by any; a TPU node is
\* in no batch of any round.
C8_TpuExactlyOnce ==
  /\ \A n \in Hosts : HasTpuType(n) => n \notin AllBatched
  /\ \A n \in Hosts : ~HasTpuType(n) => TpuDeleteCount(n) = 0
  /\ Ended => \A n \in Hosts : HasTpuType(n) => TpuDeleteCount(n) = 1

\* C8 amended: a TPU node is in no batch of any round and gets at most one
\* accelerator command, exactly one once the TPU loop is over; no other node
\* gets any; an invocation that returned early issued no accelerator command.
C8_TpuOnceUnlessReturned ==
  /\ \A n \in Hosts : HasTpuType(n) => n \notin AllBatched /\ TpuDeleteCount(n) <= 1
  /\ \A n \in Hosts : ~HasTpuType(n) => TpuDeleteCount(n) = 0
  /\ (LoopExited \/ pc \in {"round", "submit", "retry"}) =>
       \A n \in Hosts : HasTpuType(n) => TpuDeleteCount(n) = 1
  /\ pc = "returned" => \A n \in Hosts : TpuDeleteCount(n) = 0

\* a finished invocation on a TPU node and a batched node, with a retry round
C8_Witness ==
  /\ pc = "done"
  /\ \E n \in Hosts : HasTpuType(n) /\ TpuDeleteCount(n) = 1
  /\ Len(hist) = 2
  /\ hist[2].batched # {}

\* ------------------------------------------------------------------ C9
\* the job's nodes are exclusive nodes of a partition that meets the
\* placement conditions
PlacementJob ==
  /\ arg_job_id # 0
  /\ \A n \in Hosts : /\ instance_defs[get_pid(n)].exclusive
                      /\ instance_defs[get_pid(n)].enable_placement
                      /\ instance_defs[get_pid(n)].machine_type[1] = "c2"

\* C9: when a job-triggered invocation on N such nodes is done, it has issued
\* the deletes of the groups 1..ceil(N/22), and none when N = 1.
C9_PlacementGroupCount ==
  (PlacementJob /\ pc = "done") =>
    LET N == Len(input_list)
        groups == IF N > 1 THEN CeilDiv(N, PLACEMENT_MAX_CNT) ELSE 0
    IN  /\ Cardinality(DOMAIN PgDeleteIndexes) = groups
        /\ {PgDeleteIndexes[i] : i \in DOMAIN PgDeleteIndexes} = 1..groups

\* ----------------------------------------------------------------- C10
\* C10: when the submissions of a round are over, every batch of the round
\* was submitted, whether or not an earlier one raised.
C10_LaterBatchesSubmitted ==
  (pc = "retry" /\ Len(hist) >= 1) =>
    hist[Len(hist)].executed + hist[Len(hist)].raised = Len(batch_list)

\* ----------------------------------------------------------------- C11
\* C11: once the placement groups of the job's N nodes are being deleted, the
\* failure of the delete of one group prevents neither the delete of a later
\* group nor the end of the invocation: the invocation does not stop on the
\* failed call, and when it has ended the deletes of all the groups
\* 1..ceil(N/22) were attempted.
C11_OtherGroupsStillDeleted ==
  LET N == Len(node_list)
      attempted == {PgDeleteIndexes[i] : i \in DOMAIN PgDeleteIndexes}
      failed == {i \in DOMAIN events : events[i].type = "pg_delete" /\ events[i].raised}
  IN  failed # {} =>
        /\ pc # "crashed"
        /\ pc = "done" => attempted = 1..CeilDiv(N, PLACEMENT_MAX_CNT)

\* ----------------------------------------------------------------- C12
\* a delete of a node: an accelerator command or the submission of a batch
IsDeletion(e) == e.type \in {"tpu_delete", "batch"}

\* C12: in a job-triggered invocation every delete, accelerator command or
\* batch submission, comes after a down command and a later power_down command
\* that both name all the nodes of the list; the down command is the first
\* scheduler command and no resume comes before the power_down.
C12_DownThenPowerDownFirst ==
  arg_job_id # 0 =>
    \A i \in DOMAIN events :
      IsDeletion(events[i]) =>
        \E d, p \in 1..(i - 1) :
          /\ d < p
          /\ events[d] = ScontrolEvent("down", Hosts)
          /\ events[p] = ScontrolEvent("power_down", Hosts)
          /\ \A j \in 1..(d - 1) : events[j].type # "scontrol"
          /\ \A j \in 1..p : ~IsResume(events[j])

\* a finished job-triggered invocation that deleted a TPU node by a command
\* and another node by a batch request
C12_Witness ==
  /\ arg_job_id # 0
  /\ pc = "done"
  /\ \E i \in DOMAIN events : events[i].type = "tpu_delete"
  /\ \E i \in DOMAIN events : events[i].type = "batch" /\ events[i].size >= 1
  /\ \A n \in Hosts : node_state[n] # "AdminDown"

\* ----------------------------------------------------------------- C13
\* C13: in a job-triggered invocation no node is named by more than one
\* resume command.
C13_AtMostOneResume ==
  arg_job_id # 0 => \A n \in Hosts : ResumeCount(n) <= 1

\* ----------------------------------------------------------------- C14
\* C14: in a job on nodes of a placement partition, when the delete of a
\* placement group is issued no operation wait is still to come, and every
\* node of the job has an operation whose wait ended in success: no group is
\* deleted when a node's delete failed, was lost or ended in error.
C14_PlacementOnlyWhenAllDeleted ==
  PlacementJob =>
    \A i \in DOMAIN events :
      events[i].type = "pg_delete" =>
        /\ \A j \in DOMAIN events : j > i => events[j].type # "wait"
        /\ \A n \in Hosts : WaitSucceededBefore(n, i)

\* ----------------------------------------------------------------- C15
\* C15: the operation map holds at most one operation per hostname; a
\* hostname whose request was accepted in a round is in no batch of a later
\* round and is accepted in no later round; a hostname of the map is not in
\* the retry queue and, while a later round is prepared or submitted, not in
\* the list of that round.
C15_AcceptedAtMostOnce ==
  /\ \A i, j \in DOMAIN operations : operations[i].key = operations[j].key => i = j
  /\ OperationKeys \subseteq Hosts
  /\ \A j, k \in DOMAIN hist :
       j < k => /\ hist[j].accepted \cap hist[k].batched = {}
                /\ hist[j].accepted \cap hist[k].accepted = {}
  /\ OperationKeys \cap Range(retry_list) = {}
  /\ \A r \in DOMAIN hist : hist[r].accepted \subseteq hist[r].batched
  /\ (pc = "round" /\ Len(hist) >= 1) => OperationKeys \cap Range(node_list) = {}

\* two rounds, each with an accepted request, and one operation for each node
C15_Witness ==
  /\ pc = "done"
  /\ Len(hist) = 2
  /\ hist[1].accepted # {}
  /\ hist[2].accepted # {}
  /\ OperationKeys = Hosts
  /\ Len(operations) = 2

\* ----------------------------------------------------------------- C16
\* C16: in an idle-triggered invocation no node of an exclusive partition is
\* in a batch of any round, no request of the current batches names one, and
\* a node of the same list that is neither exclusive, TPU nor regional is in a
\* batch of the first round.
C16_IdleNeverBatchesExclusive ==
  arg_job_id = 0 =>
    /\ \A r \in DOMAIN hist : \A n \in hist[r].batched : ~instance_defs[get_pid(n)].exclusive
    /\ \A b \in DOMAIN batch_list : \A q \in DOMAIN batch_list[b] :
         ~instance_defs[get_pid(batch_list[b][q].request_id)].exclusive
    /\ \A n \in OperationKeys \cup Range(retry_list) : ~instance_defs[get_pid(n)].exclusive
    /\ FirstRoundBatched =>
         \A n \in Hosts :
           (/\ ~instance_defs[get_pid(n)].exclusive
            /\ ~instance_defs[get_pid(n)].regional_capacity
            /\ ~HasTpuType(n)) => n \in hist[1].batched

\* an idle-triggered invocation on an exclusive node and a plain node that
\* was throttled once: two rounds, the plain node in both
C16_Witness ==
  /\ arg_job_id = 0
  /\ pc = "done"
  /\ IdleSkipped # {}
  /\ Len(hist) = 2
  /\ hist[1].batched # {}
  /\ hist[2].batched = hist[1].batched

\* ----------------------------------------------------------------- C17
\* the regional nodes of the batch path that the live lookup returned
FoundRegional ==
  {n \in Hosts : /\ ~HasTpuType(n)
                 /\ instance_defs[get_pid(n)].regional_capacity
                 /\ fate[n].lookup # NoValue}

\* the requests of the current batches
Requests == UNION {Range(batch_list[b]) : b \in DOMAIN batch_list}

\* C17: a regional node that the live lookup does not return is in no batch,
\* in no answer of any round, not in the retry queue and not in the operation
\* map; the first round batches the other nodes as if it were not in the
\* list; the request of a regional node that was found names the zone at the
\* end of the zone URL the lookup reported, and the request of any other node
\* names the zone of its partition.
C17_AbsentRegionalIgnored ==
  /\ \A n \in AbsentRegional :
       /\ n \notin AllBatched
       /\ n \notin Range(retry_list)
       /\ n \notin OperationKeys
       /\ \A r \in DOMAIN hist :
            n \notin hist[r].throttled \cup hist[r].permanent \cup hist[r].accepted
       /\ \A q \in Requests : q.request_id # n
  /\ FirstRoundBatched =>
       hist[1].batched =
         {n \in Hosts : ~HasTpuType(n) /\ n \notin AbsentRegional /\ n \notin IdleSkipped}
  /\ \A q \in Requests :
       q.zone = IF q.request_id \in FoundRegional
                THEN fate[q.request_id].lookup[Len(fate[q.request_id].lookup)]
                ELSE instance_defs[get_pid(q.request_id)].zone

\* a finished invocation on a regional node the lookup did not return and a
\* regional node it returned, deleted in the zone of the lookup
C17_Witness ==
  /\ pc = "done"
  /\ AbsentRegional # {}
  /\ \E n \in FoundRegional :
       /\ n \in OperationKeys
       /\ \E q \in Requests : q.request_id = n /\ q.zone = "zone-b"

\* ----------------------------------------------------------------- C18
\* number of calls of the regional lookup whose definitions include pid
LookupCount(pid) ==
  Cardinality({i \in DOMAIN events : events[i].type = "lookup" /\ pid \in events[i].defs})

\* C18: the live lookup of a regional partition definition is performed at
\* most once in an invocation, however many nodes and retry rounds there are.
C18_OneLookupPerDefinition ==
  \A pid \in Pids : instance_defs[pid].regional_capacity => LookupCount(pid) <= 1

\* ----------------------------------------------------------------- C19
\* C19: an idle-triggered invocation issues no scheduler command, so neither
\* down nor power_down, leaves the scheduler state of every node as it was,
\* and its only calls on the provider are the lookup, the accelerator deletes
\* and the batch submissions.
C19_IdleOnlyDeletes ==
  arg_job_id = 0 =>
    /\ \A i \in DOMAIN events : events[i].type \in {"lookup", "tpu_delete", "batch"}
    /\ \A n \in Hosts : node_state[n] = "PowerDown"
    /\ pc \notin {"power_down", "wait", "pg_delete", "pg_wait"}

\* a finished idle-triggered invocation that deleted a TPU node by a command
\* and another node by an accepted batch request
C19_Witness ==
  /\ arg_job_id = 0
  /\ pc = "done"
  /\ \E i \in DOMAIN events : events[i].type = "tpu_delete"
  /\ \E i \in DOMAIN events : events[i].type = "batch" /\ ~events[i].raised
  /\ operations # <<>>

\* ----------------------------------------------------------------- C20
\* the last call made was a placement-group delete or wait that failed
PlacementCallFailed ==
  /\ events # <<>>
  /\ \/ Last(events).type = "pg_delete" /\ Last(events).raised
     \/ Last(events).type = "pg_wait" /\ ~Last(events).ok

\* the wait of every operation of the map was made
AllOperationsWaited ==
  \A n \in OperationKeys : \E i \in DOMAIN events : events[i].type = "wait" /\ events[i].node = n

\* C20: a batch submission that raises or an operation wait that fails never
\* ends the invocation: the invocation stops early only on a failed
\* placement-group call, after the wait loop of a job-triggered invocation
\* every operation of the map was waited for, and every invocation that does
\* not return at its first test reaches the summary after the wait loop.
C20_FailuresNeverTerminate ==
  /\ [](pc = "crashed" => PlacementCallFailed)
  /\ []((arg_job_id # 0 /\ pc \in {"summary", "pg_delete", "pg_wait", "done", "crashed"})
          => AllOperationsWaited)
  /\ <>(pc \in {"returned", "summary"})

\* a finished job-triggered invocation in which a batch raised in the second
\* round and the wait of an operation accepted in the first round failed
C20_Witness ==
  /\ arg_job_id # 0
  /\ pc = "done"
  /\ \E i \in DOMAIN events : events[i].type = "batch" /\ events[i].raised
  /\ \E i \in DOMAIN events : events[i].type = "wait" /\ ~events[i].ok

\* ----------------------------------------------------------------- C21
\* the partition of the first node of the list is exclusive
FirstExclusive == instance_defs[get_pid(input_list[1])].exclusive

\* C21: a job-triggered invocation whose first node is of a non-exclusive
\* partition makes no call and changes no state, whatever the partitions of
\* the later nodes: no scheduler command, no accelerator delete, no lookup,
\* no batch, no operation and no placement-group delete. One whose first node
\* is of an exclusive partition never returns early, sets every node of the
\* list to down, batches in its first round every node that is neither TPU
\* nor an absent regional one, exclusive or not, and has deleted every TPU
\* node when the retry loop is left.
C21_FirstNodeDecides ==
  arg_job_id # 0 =>
    /\ ~FirstExclusive =>
         /\ pc \in {"start", "returned"}
         /\ events = <<>>
         /\ hist = <<>>
         /\ operations = <<>>
         /\ retry_list = <<>>
         /\ batch_list = <<>>
         /\ pg_ops = <<>>
         /\ \A n \in Hosts : node_state[n] = "Schedulable"
    /\ FirstExclusive =>
         /\ pc # "returned"
         /\ pc # "start" => events[1] = ScontrolEvent("down", Hosts)
         /\ FirstRoundBatched =>
              hist[1].batched = {n \in Hosts : ~HasTpuType(n) /\ n \notin AbsentRegional}
         /\ LoopExited => \A n \in Hosts : HasTpuType(n) => TpuDeleteCount(n) = 1

\* a job-triggered invocation that returned at once because its first node is
\* of a non-exclusive partition, although a later node is of an exclusive one
C21_Witness ==
  /\ arg_job_id # 0
  /\ pc = "returned"
  /\ ~FirstExclusive
  /\ \E i \in 2..Len(input_list) : instance_defs[get_pid(input_list[i])].exclusive

====
